---- MODULE Spec2Model ----
(***************************************************************************)
(* Provider matching engine and services of OPTIMAT-DB:                    *)
(*   src/src/utils/matching.py            check_time_in_range,             *)
(*                                        check_time_match,                *)
(*                                        check_area_match                 *)
(*   src/src/utils/geocoding.py           geocode_address (lru_cache)      *)
(*   src/src/services/provider_matcher.py find_matching_providers          *)
(*   src/src/server.py                    POST /api/match handler          *)
(*   src/src/routes/chat_routes.py        chat_endpoint, conversations     *)
(*                                                                         *)
(* Python values are modelled as follows.                                  *)
(*   - a string that the code slices and parses ("HHMM", the day mask) is  *)
(*     a sequence of one-character strings;                                *)
(*   - an ISO timestamp string is a record [day, min, off]: the weekday    *)
(*     of its calendar date (Monday = 0, the week of 2024-03-18), the      *)
(*     minute of the day it shows, and its UTC offset in minutes;          *)
(*   - None is the record NoneVal; every other value carries a tag t.      *)
(***************************************************************************)
EXTENDS Integers, Sequences, FiniteSets, TLC

VARIABLES
    pc,                 \* position of the find_matching_providers call
    req,                \* the request dict of the current call
    store,              \* rows of atccc.<table> (a set: the table has no order)
    geoWorld,           \* what Nominatim answers for each address right now
    geoCache,           \* the lru_cache of geocode_address
    org_coords,         \* local of find_matching_providers
    dest_coords,        \* local of find_matching_providers
    providers,          \* local: cur.fetchall()
    matching_providers, \* local: the list being built
    outcome,            \* what the call returned or raised
    geocoderCalls,      \* Nominatim look-ups made by the current call
    queries,            \* cur.execute calls made by the current call
    tm,                 \* the temporal matcher called on its own
    am,                 \* the geofence matcher called on its own
    api,                \* the handler of POST /api/match and the connection pool
    chat                \* the chat service: conversations and the handlers of POST /chat

vars == <<pc, req, store, geoWorld, geoCache, org_coords, dest_coords,
          providers, matching_providers, outcome, geocoderCalls, queries, tm,
          am, api, chat>>

orchVars == <<pc, req, store, geoWorld, geoCache, org_coords, dest_coords,
              providers, matching_providers, outcome, geocoderCalls, queries>>

-----------------------------------------------------------------------------
(* Bounds of the model *)

MaxProviders == 2

MaxEntries == 2

-----------------------------------------------------------------------------
(* Program constants *)

MinutesPerDay == 1440

MinutesPerHour == 60

MidnightHour == 24

PacificOffset == -420

NoneVal == [t |-> "None"]

IsNone(v) == v.t = "None"

-----------------------------------------------------------------------------
(* Strings and integers *)

Digits == <<"0", "1", "2", "3", "4", "5", "6", "7", "8", "9">>

IsDigit(c) == \E i \in 1..10 : Digits[i] = c

DigitVal(c) == (CHOOSE i \in 1..10 : Digits[i] = c) - 1

Min2(a, b) == IF a < b THEN a ELSE b

\* s[:2]
Head2(s) == SubSeq(s, 1, Min2(2, Len(s)))

\* s[2:]
Tail2(s) == SubSeq(s, 3, Len(s))

\* int(s) raises ValueError on the empty string and on a non-digit character
IntRaises(s) == Len(s) = 0 \/ \E i \in 1..Len(s) : ~IsDigit(s[i])

RECURSIVE IntOf(_)
IntOf(s) ==
    IF Len(s) = 0 THEN 0
    ELSE 10 * IntOf(SubSeq(s, 1, Len(s) - 1)) + DigitVal(s[Len(s)])

-----------------------------------------------------------------------------
(* Timestamps *)

\* datetime.fromisoformat(ts.replace('Z', '+00:00')): an aware datetime, kept
\* as the fields the string shows plus the instant (minutes since Monday
\* 00:00 UTC) that comparisons and astimezone use.
fromisoformat(ts) ==
    [day |-> ts.day, min |-> ts.min, off |-> ts.off,
     utc |-> ts.day * MinutesPerDay + ts.min - ts.off]

\* dt.astimezone(pytz.timezone('America/Los_Angeles')); the modelled week is
\* in daylight time, UTC-07:00.
astimezone(dt) ==
    LET loc == dt.utc + PacificOffset + 7 * MinutesPerDay
    IN  [weekday |-> (loc \div MinutesPerDay) % 7,
         hour    |-> (loc % MinutesPerDay) \div MinutesPerHour,
         minute  |-> (loc % MinutesPerDay) % MinutesPerHour]

-----------------------------------------------------------------------------
(* Temporal availability matcher: src/src/utils/matching.py *)

\* check_time_in_range raises ValueError when int() cannot parse a slice
RangeRaises(start_time, end_time) ==
    \/ IntRaises(Head2(start_time)) \/ IntRaises(Tail2(start_time))
    \/ IntRaises(Head2(end_time))   \/ IntRaises(Tail2(end_time))

\* check_time_in_range with the end of the window excluded
check_time_in_range_open_end(check_time, start_time, end_time) ==
    LET check_minutes0 == check_time.hour * MinutesPerHour + check_time.minute
        start_minutes == IntOf(Head2(start_time)) * MinutesPerHour + IntOf(Tail2(start_time))
        end_hour      == IntOf(Head2(end_time))
        end_minutes   == IF end_hour >= MidnightHour
                         THEN (end_hour - MidnightHour) * MinutesPerHour + IntOf(Tail2(end_time))
                         ELSE end_hour * MinutesPerHour + IntOf(Tail2(end_time))
        check_minutes == IF end_hour >= MidnightHour /\ check_minutes0 < start_minutes
                         THEN check_minutes0 + MidnightHour * MinutesPerHour
                         ELSE check_minutes0
    IN  start_minutes <= check_minutes /\ check_minutes < end_minutes

check_time_in_range(check_time, start_time, end_time) ==
    LET check_hour    == check_time.hour
        check_minute  == check_time.minute
        start_hour    == IntOf(Head2(start_time))
        start_minute  == IntOf(Tail2(start_time))
        end_hour      == IntOf(Head2(end_time))
        end_minute    == IntOf(Tail2(end_time))
        check_minutes0 == check_hour * MinutesPerHour + check_minute
        start_minutes == start_hour * MinutesPerHour + start_minute
        end_minutes   == IF end_hour >= MidnightHour
                         THEN (end_hour - MidnightHour) * MinutesPerHour + end_minute
                         ELSE end_hour * MinutesPerHour + end_minute
        check_minutes == IF end_hour >= MidnightHour /\ check_minutes0 < start_minutes
                         THEN check_minutes0 + MidnightHour * MinutesPerHour
                         ELSE check_minutes0
    IN  start_minutes <= check_minutes /\ check_minutes <= end_minutes

\* day_pattern[t.weekday()] == '1'; IndexError when the mask is too short
DayIndexRaises(day_pattern, t) == Len(day_pattern) <= t.weekday

DayOperates(day_pattern, t) == day_pattern[t.weekday + 1] = "1"

\* The for loop of check_time_match over service_hours['hours']:
\* "True" (return True), "False" (loop ran out), "raise" (an exception left
\* the loop).
RECURSIVE ScanHours(_, _, _)
ScanHours(hours, dep, ret) ==
    IF hours = <<>> THEN "False"
    ELSE
        LET h == Head(hours)
        IN  IF DayIndexRaises(h.day, dep) \/ DayIndexRaises(h.day, ret)
            THEN "raise"
            ELSE IF DayOperates(h.day, dep) /\ DayOperates(h.day, ret)
            THEN IF RangeRaises(h.start, h.end)
                 THEN "raise"
                 ELSE IF /\ check_time_in_range(dep, h.start, h.end)
                         /\ check_time_in_range(ret, h.start, h.end)
                      THEN "True"
                      ELSE ScanHours(Tail(hours), dep, ret)
            ELSE ScanHours(Tail(hours), dep, ret)

\* check_time_match(service_hours, dep_time, ret_time); every exception is
\* caught and turned into False.
check_time_match(service_hours, dep_time, ret_time) ==
    IF IsNone(service_hours) THEN FALSE
    ELSE IF IsNone(dep_time) \/ IsNone(ret_time) THEN FALSE
    ELSE ScanHours(service_hours.hours,
                   astimezone(fromisoformat(dep_time)),
                   astimezone(fromisoformat(ret_time))) = "True"

-----------------------------------------------------------------------------
(* Inputs of the temporal matcher *)

Str4(a, b, c, d) == <<a, b, c, d>>

Mask(a, b, c, d, e, f, g) == <<a, b, c, d, e, f, g>>

Entry(day, start, end) == [day |-> day, start |-> start, end |-> end]

\* {day:"1111100", start:"0444", end:"2414"}
EntryA == Entry(Mask("1","1","1","1","1","0","0"), Str4("0","4","4","4"), Str4("2","4","1","4"))

\* Wednesday and Thursday, 22:00 to 00:14 of the next day
EntryLate == Entry(Mask("0","0","1","1","0","0","0"), Str4("2","2","0","0"), Str4("2","4","1","4"))

\* Wednesday 09:30 to 14:45
EntryDay == Entry(Mask("0","0","1","0","0","0","0"), Str4("0","9","3","0"), Str4("1","4","4","5"))

\* Wednesday 09:00 to 10:00
EntryMorning == Entry(Mask("0","0","1","0","0","0","0"), Str4("0","9","0","0"), Str4("1","0","0","0"))

\* Wednesday 14:00 to 15:00
EntryAfternoon == Entry(Mask("0","0","1","0","0","0","0"), Str4("1","4","0","0"), Str4("1","5","0","0"))

\* a day mask that is too short
EntryShortMask == Entry(<<"1", "1">>, Str4("0","0","0","0"), Str4("2","3","5","9"))

\* a start that int() cannot parse
EntryBadStart == Entry(Mask("0","0","1","1","0","0","0"), Str4("0","9","x","0"), Str4("1","4","4","5"))

EntryPool == {EntryA, EntryLate, EntryDay, EntryMorning, EntryAfternoon,
              EntryShortMask, EntryBadStart}

SeqsUpTo(S, n) == UNION {[1..k -> S] : k \in 0..n}

Hours(entries) == [t |-> "dict", hours |-> entries]

ServiceHoursInputs == {NoneVal} \cup {Hours(es) : es \in SeqsUpTo(EntryPool, MaxEntries)}

Stamp(day, min, off) == [t |-> "str", day |-> day, min |-> min, off |-> off]

\* 2024-03-20T09:30:00-07:00 and 2024-03-20T14:45:00-07:00
DepA == Stamp(2, 570, -420)

RetA == Stamp(2, 885, -420)

\* 2024-03-20T21:45:00Z, the instant of RetA written in UTC
RetAUtc == Stamp(2, 1305, 0)

TimeInputs ==
    { DepA, RetA, RetAUtc,
      Stamp(2, 569, -420),     \* Wednesday 09:29
      Stamp(2, 886, -420),     \* Wednesday 14:46
      Stamp(2, 1430, -420),    \* Wednesday 23:50
      Stamp(3, 10, -420),      \* Thursday 00:10
      Stamp(3, 15, -420),      \* Thursday 00:15
      Stamp(4, 420, 0),        \* Friday 07:00Z = Friday 00:00 Pacific
      Stamp(5, 600, -420) }    \* Saturday 10:00

-----------------------------------------------------------------------------
(* Geofence matcher: src/src/utils/matching.py *)

Coords(lon, lat) == [t |-> "tuple", lon |-> lon, lat |-> lat]

\* Point(*coords): x is the first element of the tuple, y the second
Point(c) == <<c.lon, c.lat>>

\* a GeoJSON FeatureCollection: the coordinates of each feature's geometry,
\* of which the first element is the outer ring
Zone(ring) == [t |-> "dict", features |-> <<ring>>]

\* a FeatureCollection that holds no feature
ZoneNoFeature == [t |-> "dict", features |-> <<>>]

\* vertex i of the ring and its successor (the ring closes on itself)
RingEdge(ring, i) == <<ring[i], ring[(i % Len(ring)) + 1]>>

Cross(a, b, p) == (b[1] - a[1]) * (p[2] - a[2]) - (b[2] - a[2]) * (p[1] - a[1])

OnSegment(a, b, p) ==
    /\ Cross(a, b, p) = 0
    /\ Min2(a[1], b[1]) <= p[1] /\ p[1] <= (IF a[1] > b[1] THEN a[1] ELSE b[1])
    /\ Min2(a[2], b[2]) <= p[2] /\ p[2] <= (IF a[2] > b[2] THEN a[2] ELSE b[2])

OnBoundary(ring, p) ==
    \E i \in 1..Len(ring) : OnSegment(RingEdge(ring, i)[1], RingEdge(ring, i)[2], p)

\* the edge crosses the horizontal ray that leaves p towards +x
RayCrosses(a, b, p) ==
    /\ (a[2] > p[2]) # (b[2] > p[2])
    /\ IF b[2] > a[2]
       THEN (p[1] - a[1]) * (b[2] - a[2]) < (p[2] - a[2]) * (b[1] - a[1])
       ELSE (p[1] - a[1]) * (b[2] - a[2]) > (p[2] - a[2]) * (b[1] - a[1])

\* shapely Polygon.contains: the point is in the interior, not on the boundary
PolygonContains(ring, p) ==
    /\ ~OnBoundary(ring, p)
    /\ Cardinality({i \in 1..Len(ring) :
           RayCrosses(RingEdge(ring, i)[1], RingEdge(ring, i)[2], p)}) % 2 = 1

\* Polygon(coordinates[0]) raises on a ring of fewer than three points
PolygonRaises(ring) == Len(ring) < 3

PyBool(b) == [t |-> "bool", v |-> b]

\* service_zone['features'][0] raises IndexError on an empty feature list
FeatureRaises(service_zone) == service_zone.features = <<>>

\* lines 100-109, the statements inside the try: "True", "False" or "raise"
AreaBody(service_zone, org, dest) ==
    IF IsNone(service_zone) \/ IsNone(org) \/ IsNone(dest) THEN "False"
    ELSE IF FeatureRaises(service_zone) THEN "raise"
    ELSE IF PolygonRaises(service_zone.features[1]) THEN "raise"
    ELSE IF /\ PolygonContains(service_zone.features[1], Point(org))
            /\ PolygonContains(service_zone.features[1], Point(dest))
         THEN "True" ELSE "False"

\* the body without its try/except: the exception leaves the coroutine
AwaitAreaMatch_no_except(service_zone, org, dest) ==
    IF AreaBody(service_zone, org, dest) = "raise" THEN [t |-> "raise"]
    ELSE PyBool(AreaBody(service_zone, org, dest) = "True")

\* "await check_area_match(...)": the value the coroutine yields; "except
\* Exception" turns every exception of the body into False
AwaitAreaMatch(service_zone, org, dest) ==
    IF AreaBody(service_zone, org, dest) = "raise" THEN PyBool(FALSE)
    ELSE PyBool(AreaBody(service_zone, org, dest) = "True")

\* The body of check_area_match as a truth value
check_area_match(service_zone, org, dest) == AwaitAreaMatch(service_zone, org, dest).v

\* check_area_match is declared "async def": calling it runs none of its body
\* and yields a coroutine object.
check_area_match_call(service_zone, org, dest) == [t |-> "coroutine"]

\* Python truth value of an object
Truthy(v) ==
    CASE v.t = "None" -> FALSE
      [] v.t = "bool" -> v.v
      [] OTHER        -> TRUE

-----------------------------------------------------------------------------
(* Geocoder: src/src/utils/geocoding.py *)

Addresses == {"Home", "Far", "Nowhere"}

Miss == [t |-> "miss"]

\* Nominatim's answers; "Nowhere" is unknown at first and may become known
World0 == [a \in Addresses |->
             CASE a = "Home" -> Coords(2, 2)
               [] a = "Far"  -> Coords(6, 2)
               [] OTHER      -> NoneVal]

World1 == [World0 EXCEPT !["Nowhere"] = Coords(3, 3)]

\* GeocoderService.geocode: (longitude, latitude) or None
geocode(world, address) == world[address]

\* geocode_address under lru_cache: the value returned and the cache after
geocode_address(cache, world, address) ==
    IF cache[address] = Miss
    THEN [value |-> geocode(world, address),
          cache |-> [cache EXCEPT ![address] = geocode(world, address)]]
    ELSE [value |-> cache[address], cache |-> cache]

-----------------------------------------------------------------------------
(* Provider store *)

Row(id, name, type, hours, zone) ==
    [provider_id |-> id, provider_name |-> name, provider_type |-> type,
     service_hours |-> hours, service_zone |-> zone]

Id(n) == [t |-> "int", v |-> n]

\* a square around "Home", and a square around "Far"
ZoneHome == Zone(<<<<0, 0>>, <<4, 0>>, <<4, 4>>, <<0, 4>>, <<0, 0>>>>)

ZoneFar == Zone(<<<<5, 0>>, <<8, 0>>, <<8, 4>>, <<5, 4>>, <<5, 0>>>>)

\* a zone whose outer ring has too few points to make a polygon
ZoneMalformed == Zone(<<<<0, 0>>, <<4, 0>>>>)

RowPool ==
    { Row(Id(1), "Alpha Rides", "ADA", Hours(<<EntryDay>>), ZoneHome),
      Row(Id(2), "Bay Link", "paratransit", Hours(<<EntryDay>>), ZoneFar),
      Row(Id(3), "County Van", "paratransit", Hours(<<EntryA>>), ZoneHome),
      Row(Id(4), "Delta Dial", "ADA", NoneVal, ZoneHome),
      Row(Id(5), "East Shuttle", "volunteer", Hours(<<EntryMorning>>), NoneVal),
      Row(Id(6), "Ferry Bus", "fixed-route", Hours(<<EntryMorning, EntryDay>>), NoneVal),
      Row(Id(7), "Gate Cab", "volunteer", Hours(<<EntryDay>>), ZoneMalformed),
      Row(Id(8), "Hill Hopper", "ADA", Hours(<<EntryShortMask, EntryDay>>), ZoneHome),
      Row(NoneVal, "anonymous", "paratransit", Hours(<<EntryDay>>), ZoneHome) }

StoreInputs == {S \in SUBSET RowPool : Cardinality(S) <= MaxProviders}

\* SELECT ... FROM atccc.<table> WHERE provider_id IS NOT NULL
SelectProviders(table) == {r \in table : ~IsNone(r.provider_id)}

\* the orders in which fetchall may hand the selected rows over
Orderings(S) ==
    {q \in [1..Cardinality(S) -> S] : \A i, j \in 1..Cardinality(S) : q[i] = q[j] => i = j}

-----------------------------------------------------------------------------
(* Matching orchestrator: src/src/services/provider_matcher.py *)

Criteria(el, eq, hc, nc, sh) ==
    [eligibility |-> el, equipment |-> eq, healthConditions |-> hc,
     needsCompanion |-> nc, allowsSharing |-> sh]

CriteriaInputs ==
    { Criteria(<<"senior", "disability">>, <<"wheelchair">>, <<"none">>, TRUE, TRUE),
      Criteria(<<>>, <<>>, <<>>, FALSE, FALSE) }

\* departureTime/returnTime may be None: validate_match_request of
\* src/src/utils/validation.py defaults them to None
ReqTimeInputs == {DepA, RetA, RetAUtc, NoneVal}

Request(dep, ret, org, dest, c) ==
    [departureTime |-> dep, returnTime |-> ret,
     originAddress |-> org, destinationAddress |-> dest,
     eligibility |-> c.eligibility, equipment |-> c.equipment,
     healthConditions |-> c.healthConditions,
     needsCompanion |-> c.needsCompanion, allowsSharing |-> c.allowsSharing]

RequestInputs ==
    {Request(d, r, o, a, c) :
        d \in ReqTimeInputs, r \in ReqTimeInputs, o \in Addresses, a \in Addresses,
        c \in CriteriaInputs}

NoOutcome == [kind |-> "none", error_code |-> "", details |-> [t |-> "dict"], value |-> <<>>]

\* ProviderMatchError(message, error_code, details)
ProviderMatchError(error_code, details) ==
    [kind |-> "raise", class |-> "ProviderMatchError", error_code |-> error_code,
     details |-> details, value |-> <<>>]

\* an exception of another class, raised inside the try of find_matching_providers
OtherException(class) ==
    [kind |-> "raise", class |-> class, error_code |-> "", details |-> [t |-> "dict"],
     value |-> <<>>]

\* every exception is wrapped, a ProviderMatchError included
Surface_rewrap(e) ==
    ProviderMatchError("MATCH_PROCESS_ERROR", [t |-> "dict", original_error |-> e.class])

\* lines 120-128: a ProviderMatchError is re-raised as it is, any other
\* exception becomes MATCH_PROCESS_ERROR and keeps its cause in the details
Surface(e) ==
    IF e.class = "ProviderMatchError" THEN e
    ELSE ProviderMatchError("MATCH_PROCESS_ERROR",
                            [t |-> "dict", original_error |-> e.class])

Returned(value) ==
    [kind |-> "return", error_code |-> "", details |-> [t |-> "dict"], value |-> value]

\* dt.isoformat(): the string of the datetime, offset included
isoformat(dt) == Stamp(dt.day, dt.min, dt.off)

\* the comparison with "<" in place of "<="
TimeRangeInvalid_strict(dep_time, ret_time) == ret_time.utc < dep_time.utc

\* ret_time <= dep_time on aware datetimes compares the instants
TimeRangeInvalid(dep_time, ret_time) == ret_time.utc <= dep_time.utc

\* only the origin is tested
GeocodingFailed_origin_only(org, dest) == ~Truthy(org)

\* not org_coords or not dest_coords
GeocodingFailed(org, dest) == ~Truthy(org) \/ ~Truthy(dest)

\* an exception is raised inside check_time_match while it scans the schedule
ScheduleRaises(service_hours, dep_time, ret_time) ==
    /\ ~IsNone(service_hours)
    /\ ~IsNone(dep_time) /\ ~IsNone(ret_time)
    /\ ScanHours(service_hours.hours,
                 astimezone(fromisoformat(dep_time)),
                 astimezone(fromisoformat(ret_time))) = "raise"

\* a turn of the loop that also reads the request's criteria: a rider who
\* needs a companion is not given a volunteer service
ProviderRetained_companion(provider, r, org, dest) ==
    IF ~check_time_match(provider.service_hours, r.departureTime, r.returnTime)
    THEN FALSE
    ELSE IF ~Truthy(check_area_match_call(provider.service_zone, org, dest))
    THEN FALSE
    ELSE IF r.needsCompanion /\ provider.provider_type = "volunteer"
    THEN FALSE
    ELSE TRUE

\* One turn of the for loop: TRUE when the provider is appended.
ProviderRetained(provider, r, org, dest) ==
    IF ~check_time_match(provider.service_hours, r.departureTime, r.returnTime)
    THEN FALSE
    ELSE IF ~Truthy(check_area_match_call(provider.service_zone, org, dest))
    THEN FALSE
    ELSE TRUE

\* the name and the type change places
ResultEntry_swapped(provider) ==
    [ID |-> provider.provider_id, Provider |-> provider.provider_type,
     Type |-> provider.provider_name]

ResultEntry(provider) ==
    [ID |-> provider.provider_id, Provider |-> provider.provider_name,
     Type |-> provider.provider_type]

RECURSIVE FilterLoop(_, _, _, _)
FilterLoop(rows, r, org, dest) ==
    IF rows = <<>> THEN <<>>
    ELSE (IF ProviderRetained(Head(rows), r, org, dest)
          THEN <<ResultEntry(Head(rows))>> ELSE <<>>)
         \o FilterLoop(Tail(rows), r, org, dest)

\* find_matching_providers(cur, req, table) is entered
Call(r) ==
    /\ pc = "idle"
    /\ pc' = "validate"
    /\ req' = r
    /\ org_coords' = NoneVal
    /\ dest_coords' = NoneVal
    /\ providers' = <<>>
    /\ matching_providers' = <<>>
    /\ outcome' = NoOutcome
    /\ geocoderCalls' = <<>>
    /\ queries' = 0
    /\ UNCHANGED <<store, geoWorld, geoCache, tm, am, api, chat>>

\* the error of the time check is noted and the call goes on to geocode
ValidateTimes_no_short_circuit ==
    /\ pc = "validate"
    /\ IF IsNone(req.departureTime) \/ IsNone(req.returnTime)
       THEN /\ outcome' = Surface(OtherException("AttributeError"))
            /\ pc' = "done"
       ELSE LET dep_time == fromisoformat(req.departureTime)
                ret_time == fromisoformat(req.returnTime)
            IN  /\ outcome' = IF TimeRangeInvalid(dep_time, ret_time)
                              THEN Surface(ProviderMatchError("INVALID_TIME_RANGE",
                                       [t |-> "dict",
                                        departure |-> isoformat(dep_time),
                                        return |-> isoformat(ret_time)]))
                              ELSE outcome
                /\ pc' = "geocode"
    /\ UNCHANGED <<req, store, geoWorld, geoCache, org_coords, dest_coords,
                   providers, matching_providers, geocoderCalls, queries, tm, am, api, chat>>

\* lines 41-53: parse both times, compare them
ValidateTimes ==
    /\ pc = "validate"
    /\ IF IsNone(req.departureTime) \/ IsNone(req.returnTime)
       THEN /\ outcome' = Surface(OtherException("AttributeError"))
            /\ pc' = "done"
       ELSE LET dep_time == fromisoformat(req.departureTime)
                ret_time == fromisoformat(req.returnTime)
            IN  IF TimeRangeInvalid(dep_time, ret_time)
                THEN /\ outcome' = Surface(ProviderMatchError("INVALID_TIME_RANGE",
                                       [t |-> "dict",
                                        departure |-> isoformat(dep_time),
                                        return |-> isoformat(ret_time)]))
                     /\ pc' = "done"
                ELSE /\ outcome' = outcome
                     /\ pc' = "geocode"
    /\ UNCHANGED <<req, store, geoWorld, geoCache, org_coords, dest_coords,
                   providers, matching_providers, geocoderCalls, queries, tm, am, api, chat>>

\* lines 55-67: geocode both addresses, fail when either is missing
GeocodeAddresses ==
    /\ pc = "geocode"
    /\ LET g1 == geocode_address(geoCache, geoWorld, req.originAddress)
           g2 == geocode_address(g1.cache, geoWorld, req.destinationAddress)
       IN  /\ org_coords' = g1.value
           /\ dest_coords' = g2.value
           /\ geoCache' = g2.cache
           /\ geocoderCalls' = geocoderCalls \o <<req.originAddress, req.destinationAddress>>
           /\ IF GeocodingFailed(g1.value, g2.value)
              THEN /\ outcome' = Surface(ProviderMatchError("GEOCODING_ERROR",
                                     [t |-> "dict",
                                      origin |-> req.originAddress,
                                      destination |-> req.destinationAddress]))
                   /\ pc' = "done"
              ELSE /\ outcome' = outcome
                   /\ pc' = "fetch"
    /\ UNCHANGED <<req, store, geoWorld, providers, matching_providers, queries, tm, am, api, chat>>

\* the bulk query followed by one query for each row, as
\* _check_provider_matches would make them
FetchProviders_per_provider ==
    /\ pc = "fetch"
    /\ queries' = queries + 1 + Cardinality(SelectProviders(store))
    /\ \E rows \in Orderings(SelectProviders(store)) :
          /\ providers' = rows
          /\ IF rows = <<>>
             THEN /\ outcome' = Surface(ProviderMatchError("NO_PROVIDERS", [t |-> "dict"]))
                  /\ pc' = "done"
             ELSE /\ outcome' = outcome
                  /\ pc' = "filter"
    /\ UNCHANGED <<req, store, geoWorld, geoCache, org_coords, dest_coords,
                   matching_providers, geocoderCalls, tm, am, api, chat>>

\* lines 69-81: one query for all rows, fail when there are none
FetchProviders ==
    /\ pc = "fetch"
    /\ queries' = queries + 1
    /\ \E rows \in Orderings(SelectProviders(store)) :
          /\ providers' = rows
          /\ IF rows = <<>>
             THEN /\ outcome' = Surface(ProviderMatchError("NO_PROVIDERS", [t |-> "dict"]))
                  /\ pc' = "done"
             ELSE /\ outcome' = outcome
                  /\ pc' = "filter"
    /\ UNCHANGED <<req, store, geoWorld, geoCache, org_coords, dest_coords,
                   matching_providers, geocoderCalls, tm, am, api, chat>>

\* cur.execute or cur.fetchall raises psycopg2.Error: lines 123-128 wrap it
FetchFails ==
    /\ pc = "fetch"
    /\ queries' = queries + 1
    /\ outcome' = Surface(OtherException("psycopg2.Error"))
    /\ pc' = "done"
    /\ UNCHANGED <<req, store, geoWorld, geoCache, org_coords, dest_coords,
                   providers, matching_providers, geocoderCalls, tm, am, api, chat>>

\* the loop without the handlers around a provider's evaluation: the first
\* exception leaves the loop and reaches the handler of lines 123-128
FilterProviders_no_recovery ==
    /\ pc = "filter"
    /\ IF \E i \in 1..Len(providers) :
             \/ ScheduleRaises(providers[i].service_hours,
                               req.departureTime, req.returnTime)
             \/ AreaBody(providers[i].service_zone, org_coords, dest_coords) = "raise"
       THEN /\ outcome' = Surface(OtherException("IndexError"))
            /\ matching_providers' = matching_providers
            /\ pc' = "done"
       ELSE /\ matching_providers' = FilterLoop(providers, req, org_coords, dest_coords)
            /\ outcome' = outcome
            /\ pc' = "aggregate"
    /\ UNCHANGED <<req, store, geoWorld, geoCache, org_coords, dest_coords,
                   providers, geocoderCalls, queries, tm, am, api, chat>>

\* lines 83-101: the filter loop
FilterProviders ==
    /\ pc = "filter"
    /\ matching_providers' = FilterLoop(providers, req, org_coords, dest_coords)
    /\ pc' = "aggregate"
    /\ UNCHANGED <<req, store, geoWorld, geoCache, org_coords, dest_coords,
                   providers, outcome, geocoderCalls, queries, tm, am, api, chat>>

\* the list is returned without the emptiness test
Aggregate_no_empty_test ==
    /\ pc = "aggregate"
    /\ outcome' = Returned(matching_providers)
    /\ pc' = "done"
    /\ UNCHANGED <<req, store, geoWorld, geoCache, org_coords, dest_coords,
                   providers, matching_providers, geocoderCalls, queries, tm, am, api, chat>>

\* lines 103-118: NO_MATCHES on an empty list, else return it
Aggregate ==
    /\ pc = "aggregate"
    /\ IF matching_providers = <<>>
       THEN outcome' = Surface(ProviderMatchError("NO_MATCHES",
                           [t |-> "dict",
                            criteria |-> Criteria(req.eligibility, req.equipment,
                                                  req.healthConditions,
                                                  req.needsCompanion, req.allowsSharing)]))
       ELSE outcome' = Returned(matching_providers)
    /\ pc' = "done"
    /\ UNCHANGED <<req, store, geoWorld, geoCache, org_coords, dest_coords,
                   providers, matching_providers, geocoderCalls, queries, tm, am, api, chat>>

\* The caller has taken the list or the exception; the frame is gone
Return ==
    /\ pc = "done"
    /\ pc' = "idle"
    /\ req' = NoneVal
    /\ org_coords' = NoneVal
    /\ dest_coords' = NoneVal
    /\ providers' = <<>>
    /\ matching_providers' = <<>>
    /\ outcome' = NoOutcome
    /\ geocoderCalls' = <<>>
    /\ queries' = 0
    /\ UNCHANGED <<store, geoWorld, geoCache, tm, am, api, chat>>

\* Nominatim's data changes between two calls
GeocoderDataChanges ==
    /\ pc = "idle"
    /\ geoWorld' = IF geoWorld = World0 THEN World1 ELSE World0
    /\ UNCHANGED <<pc, req, store, geoCache, org_coords, dest_coords, providers,
                   matching_providers, outcome, geocoderCalls, queries, tm, am, api, chat>>

TmOff == [phase |-> "off"]

AmOff == [phase |-> "off"]

ApiOff == [phase |-> "off"]

ChatOff == [phase |-> "off"]

Init ==
    /\ pc = "idle"
    /\ req = NoneVal
    /\ store \in StoreInputs
    /\ geoWorld = World0
    /\ geoCache = [a \in Addresses |-> Miss]
    /\ org_coords = NoneVal
    /\ dest_coords = NoneVal
    /\ providers = <<>>
    /\ matching_providers = <<>>
    /\ outcome = NoOutcome
    /\ geocoderCalls = <<>>
    /\ queries = 0
    /\ tm = TmOff
    /\ am = AmOff
    /\ api = ApiOff
    /\ chat = ChatOff

Next ==
    \/ \E r \in RequestInputs : Call(r)
    \/ ValidateTimes
    \/ GeocodeAddresses
    \/ FetchProviders
    \/ FetchFails
    \/ FilterProviders
    \/ Aggregate
    \/ Return
    \/ GeocoderDataChanges

Spec == Init /\ [][Next]_vars

-----------------------------------------------------------------------------
(* The temporal matcher called on its own *)

TmArgs(sh, dep, ret) ==
    [phase |-> "args", service_hours |-> sh, dep_time |-> dep, ret_time |-> ret,
     result |-> NoneVal]

\* check_time_in_range on the departure time and the first entry of the schedule
TimeInRangeCall ==
    /\ tm.phase = "args"
    /\ ~IsNone(tm.service_hours)
    /\ tm.service_hours.hours # <<>>
    /\ ~RangeRaises(Head(tm.service_hours.hours).start, Head(tm.service_hours.hours).end)
    /\ tm' = [tm EXCEPT !.phase = "range",
                        !.result = PyBool(check_time_in_range(
                            astimezone(fromisoformat(tm.dep_time)),
                            Head(tm.service_hours.hours).start,
                            Head(tm.service_hours.hours).end))]
    /\ UNCHANGED <<orchVars, am, api, chat>>

TimeMatchCall ==
    /\ tm.phase = "args"
    /\ tm' = [tm EXCEPT !.phase = "match",
                        !.result = PyBool(check_time_match(
                            tm.service_hours, tm.dep_time, tm.ret_time))]
    /\ UNCHANGED <<orchVars, am, api, chat>>

InitTime ==
    /\ pc = "idle"
    /\ req = NoneVal
    /\ store = {}
    /\ geoWorld = World0
    /\ geoCache = [a \in Addresses |-> Miss]
    /\ org_coords = NoneVal
    /\ dest_coords = NoneVal
    /\ providers = <<>>
    /\ matching_providers = <<>>
    /\ outcome = NoOutcome
    /\ geocoderCalls = <<>>
    /\ queries = 0
    /\ tm \in {TmArgs(sh, d, r) : sh \in ServiceHoursInputs, d \in TimeInputs, r \in TimeInputs}
    /\ am = AmOff
    /\ api = ApiOff
    /\ chat = ChatOff

NextTime == TimeInRangeCall \/ TimeMatchCall

SpecTime == InitTime /\ [][NextTime]_vars

-----------------------------------------------------------------------------
(* The geofence matcher called on its own *)

\* a triangle with the corners (0,0), (4,0) and (0,4)
ZoneTriangle == Zone(<<<<0, 0>>, <<4, 0>>, <<0, 4>>, <<0, 0>>>>)

ZoneInputs == {NoneVal, ZoneNoFeature, ZoneMalformed, ZoneHome, ZoneFar, ZoneTriangle}

\* inside ZoneHome, on an edge of it, on a corner of it, inside the triangle,
\* inside ZoneFar, outside every zone, or no coordinates at all
CoordInputs ==
    {NoneVal, Coords(2, 2), Coords(4, 2), Coords(0, 0), Coords(1, 1), Coords(6, 2),
     Coords(9, 9)}

AmArgs(zone, org, dest) ==
    [phase |-> "args", service_zone |-> zone, org_coords |-> org, dest_coords |-> dest,
     result |-> NoneVal]

\* result = await check_area_match(service_zone, org_coords, dest_coords)
AreaMatchCall ==
    /\ am.phase = "args"
    /\ am' = [am EXCEPT !.phase = "done",
                        !.result = AwaitAreaMatch(am.service_zone, am.org_coords,
                                                  am.dest_coords)]
    /\ UNCHANGED <<orchVars, tm, api, chat>>

InitArea ==
    /\ pc = "idle"
    /\ req = NoneVal
    /\ store = {}
    /\ geoWorld = World0
    /\ geoCache = [a \in Addresses |-> Miss]
    /\ org_coords = NoneVal
    /\ dest_coords = NoneVal
    /\ providers = <<>>
    /\ matching_providers = <<>>
    /\ outcome = NoOutcome
    /\ geocoderCalls = <<>>
    /\ queries = 0
    /\ tm = TmOff
    /\ am \in {AmArgs(z, o, d) : z \in ZoneInputs, o \in CoordInputs, d \in CoordInputs}
    /\ api = ApiOff
    /\ chat = ChatOff

NextArea == AreaMatchCall

SpecArea == InitArea /\ [][NextArea]_vars

-----------------------------------------------------------------------------
(* The handler of POST /api/match: src/src/server.py *)

\* JSON values other than timestamps: a string, a number, a list
Str(s) == [t |-> "str", s |-> s]

Number(n) == [t |-> "int", v |-> n]

List(q) == [t |-> "list", v |-> q]

\* a string that datetime.fromisoformat does not accept
NotADate == Str("not-a-date")

\* request.json: a dict of the fields that were sent
Json(fields) == [t |-> "dict", fields |-> fields]

\* the keys of required_fields, in the order of the dict
RequiredFields ==
    <<"departureTime", "returnTime", "originAddress", "destinationAddress",
      "eligibility", "equipment", "healthConditions", "needsCompanion",
      "allowsSharing">>

required_fields ==
    [departureTime |-> "Departure time",
     returnTime |-> "Return time",
     originAddress |-> "Origin address",
     destinationAddress |-> "Destination address",
     eligibility |-> "Eligibility criteria",
     equipment |-> "Equipment needs",
     healthConditions |-> "Health conditions",
     needsCompanion |-> "Companion requirement",
     allowsSharing |-> "Ride sharing preference"]

\* ValidationError(message, field); a text is kept as the sequence of the
\* pieces it is formatted from
ValidationError(message, field) ==
    [kind |-> "raise", class |-> "ValidationError",
     message |-> IF field = <<>> THEN message
                 ELSE <<"Validation error for field '">> \o field \o <<"': ">> \o message,
     status_code |-> 400, error_code |-> "VALIDATION_ERROR"]

\* [field for field in required_fields if field not in req_data]
MissingFields(fields) ==
    LET Missing(f) == f \notin DOMAIN fields
    IN  SelectSeq(RequiredFields, Missing)

\* ', '.join(names)
RECURSIVE Join(_)
Join(names) ==
    IF names = <<>> THEN <<>>
    ELSE IF Len(names) = 1 THEN names
    ELSE <<Head(names), ", ">> \o Join(Tail(names))

\* f"Missing required fields: {', '.join(field_names)}"
MissingMessage(missing_fields) ==
    <<"Missing required fields: ">>
      \o Join([i \in 1..Len(missing_fields) |-> required_fields[missing_fields[i]]])

\* datetime.fromisoformat(v.replace('Z', '+00:00')): "ok", or the exception
ParseOutcome(v) ==
    IF v.t # "str" THEN "AttributeError"
    ELSE IF "day" \notin DOMAIN v THEN "ValueError"
    ELSE "ok"

\* v.strip(): the stripped text, or the exception
StripOutcome(v) ==
    IF v.t # "str" THEN "AttributeError"
    ELSE IF v.s \in {"", " "} THEN "empty"
    ELSE "text"

Valid == [kind |-> "ok"]

\* validate_provider_match_request: Valid, or the exception that leaves it
validate_provider_match_request(req_data) ==
    IF IsNone(req_data) \/ DOMAIN req_data.fields = {}
    THEN ValidationError(<<"Request body is empty or invalid JSON">>, <<>>)
    ELSE LET f == req_data.fields
         IN  IF MissingFields(f) # <<>>
             THEN ValidationError(MissingMessage(MissingFields(f)), <<>>)
             ELSE IF ParseOutcome(f.departureTime) = "AttributeError"
             THEN OtherException("AttributeError")
             ELSE IF ParseOutcome(f.departureTime) = "ValueError"
             THEN ValidationError(<<"Invalid date format. Use ISO format (YYYY-MM-DDTHH:MM:SS+HH:MM)">>,
                                  <<"departureTime", "/", "returnTime">>)
             ELSE IF ParseOutcome(f.returnTime) = "AttributeError"
             THEN OtherException("AttributeError")
             ELSE IF ParseOutcome(f.returnTime) = "ValueError"
             THEN ValidationError(<<"Invalid date format. Use ISO format (YYYY-MM-DDTHH:MM:SS+HH:MM)">>,
                                  <<"departureTime", "/", "returnTime">>)
             ELSE IF StripOutcome(f.originAddress) = "AttributeError"
             THEN OtherException("AttributeError")
             ELSE IF StripOutcome(f.originAddress) = "empty"
             THEN ValidationError(<<"Origin address cannot be empty">>, <<"originAddress">>)
             ELSE IF StripOutcome(f.destinationAddress) = "AttributeError"
             THEN OtherException("AttributeError")
             ELSE IF StripOutcome(f.destinationAddress) = "empty"
             THEN ValidationError(<<"Destination address cannot be empty">>,
                                  <<"destinationAddress">>)
             ELSE IF f.eligibility.t # "list"
             THEN ValidationError(<<"Eligibility must be a list">>, <<"eligibility">>)
             ELSE IF f.equipment.t # "list"
             THEN ValidationError(<<"Equipment needs must be a list">>, <<"equipment">>)
             ELSE IF f.healthConditions.t # "list"
             THEN ValidationError(<<"Health conditions must be a list">>,
                                  <<"healthConditions">>)
             ELSE IF f.needsCompanion.t # "bool"
             THEN ValidationError(<<"Companion requirement must be a boolean">>,
                                  <<"needsCompanion">>)
             ELSE IF f.allowsSharing.t # "bool"
             THEN ValidationError(<<"Ride sharing preference must be a boolean">>,
                                  <<"allowsSharing">>)
             ELSE Valid

\* the body of Scenario A, both addresses "Home"
BodyA ==
    [departureTime |-> DepA, returnTime |-> RetA,
     originAddress |-> Str("Home"), destinationAddress |-> Str("Home"),
     eligibility |-> List(<<"senior", "disability">>),
     equipment |-> List(<<"wheelchair">>),
     healthConditions |-> List(<<"none">>),
     needsCompanion |-> PyBool(TRUE), allowsSharing |-> PyBool(TRUE)]

Without(fields, names) == [f \in DOMAIN fields \ names |-> fields[f]]

\* values a client may send in place of the value of BodyA
FieldValues(f) ==
    CASE f = "departureTime" -> {RetA, NotADate, Number(12345), NoneVal}
      [] f = "returnTime"    -> {DepA, NotADate, Number(12345), NoneVal}
      [] f \in {"originAddress", "destinationAddress"}
                             -> {Str("Nowhere"), Str("Far"), Str(""), Str(" "),
                                 Number(5), NoneVal}
      [] f \in {"eligibility", "equipment", "healthConditions"}
                             -> {List(<<>>), Str("senior")}
      [] OTHER               -> {PyBool(FALSE), Str("yes")}

BodyInputs ==
    {NoneVal, Json(<<>>), Json(BodyA),
     Json(Without(BodyA, {"departureTime", "returnTime"}))}
    \cup {Json(Without(BodyA, {f})) : f \in DOMAIN BodyA}
    \cup UNION {{Json([BodyA EXCEPT ![f] = v]) : v \in FieldValues(f)} : f \in DOMAIN BodyA}

\* the dict handed to find_matching_providers, in the shape of Request
RequestOf(fields) ==
    Request(fields.departureTime, fields.returnTime,
            fields.originAddress.s, fields.destinationAddress.s,
            Criteria(fields.eligibility.v, fields.equipment.v, fields.healthConditions.v,
                     fields.needsCompanion.v, fields.allowsSharing.v))

ApiRowPool ==
    { Row(Id(1), "Alpha Rides", "ADA", Hours(<<EntryDay>>), ZoneHome),
      Row(Id(2), "Bay Link", "paratransit", Hours(<<EntryDay>>), ZoneFar),
      Row(Id(5), "East Shuttle", "volunteer", Hours(<<EntryMorning>>), NoneVal) }

ApiStoreInputs == {S \in SUBSET ApiRowPool : Cardinality(S) <= MaxProviders}

\* the handler between two requests; checkedOut counts the connections that
\* are out of db_pool, taken and released the calls of get_db and release_db
\* made for the current request
ApiListening ==
    [phase |-> "listening", body |-> NoneVal, conn |-> NoneVal, taken |-> 0,
     released |-> 0, checkedOut |-> 0, response |-> NoneVal]

\* what lines 159-160 may do: both succeed, db_pool.getconn() raises (the pool
\* is exhausted), or conn.cursor() raises (the connection is closed)
ConnectOutcomes == {"ok", "getconn raises", "cursor raises"}

\* lines 185-191: the answer to a ValidationError
ValidationResponse(e) ==
    [http |-> e.status_code, status |-> e.error_code, error |-> e.message,
     field |-> NoneVal]

\* lines 200-206: the answer to any other exception
ServerErrorResponse(e) ==
    [http |-> 500, status |-> "SERVER_ERROR", error |-> <<e.class>>,
     error_code |-> "UNEXPECTED_ERROR"]

\* lines 193-198, reached through line 183
DatabaseErrorResponse ==
    [http |-> 500, status |-> "DATABASE_ERROR",
     error |-> <<"Database error: ", "Database query failed: ">>]

\* lines 166-170
SuccessResponse(result) ==
    [http |-> 200, status |-> "SUCCESS", data |-> result,
     message |-> <<"Found ", Len(result), " matching providers">>]

\* lines 172-179
MatchErrorResponse(e) ==
    [http |-> 400, status |-> "MATCH_ERROR", error_code |-> e.error_code,
     details |-> e.details]

\* provider_match, lines 153-165: the request arrives; it is validated, and a
\* valid one takes a connection from the pool, opens a cursor and enters
\* find_matching_providers. A request that fails validation, or for which no
\* connection or cursor can be had, is answered at once; "finally" releases
\* the connection when conn is set.
ApiReceive(body) ==
    /\ api.phase \in {"listening", "responded"}
    /\ pc = "idle"
    /\ org_coords' = NoneVal
    /\ dest_coords' = NoneVal
    /\ providers' = <<>>
    /\ matching_providers' = <<>>
    /\ outcome' = NoOutcome
    /\ geocoderCalls' = <<>>
    /\ queries' = 0
    /\ LET v == validate_provider_match_request(body)
       IN  IF v.kind = "raise"
           THEN /\ api' = [api EXCEPT !.phase = "responded", !.body = body,
                                      !.conn = NoneVal, !.taken = 0, !.released = 0,
                                      !.response = IF v.class = "ValidationError"
                                                   THEN ValidationResponse(v)
                                                   ELSE ServerErrorResponse(v)]
                /\ pc' = pc
                /\ req' = NoneVal
           ELSE \E connect \in ConnectOutcomes :
                  CASE connect = "getconn raises" ->
                         /\ api' = [api EXCEPT
                                      !.phase = "responded", !.body = body,
                                      !.conn = NoneVal, !.taken = 0, !.released = 0,
                                      !.response = ServerErrorResponse(
                                                       OtherException("PoolError"))]
                         /\ pc' = pc
                         /\ req' = NoneVal
                    [] connect = "cursor raises" ->
                         /\ api' = [api EXCEPT
                                      !.phase = "responded", !.body = body,
                                      !.conn = NoneVal, !.taken = 1, !.released = 1,
                                      !.response = ServerErrorResponse(
                                                       OtherException("InterfaceError"))]
                         /\ pc' = pc
                         /\ req' = NoneVal
                    [] OTHER ->
                         /\ api' = [api EXCEPT
                                      !.phase = "matching", !.body = body,
                                      !.conn = [t |-> "connection"],
                                      !.taken = 1, !.released = 0,
                                      !.checkedOut = api.checkedOut + 1,
                                      !.response = NoneVal]
                         /\ pc' = "validate"
                         /\ req' = RequestOf(body.fields)
    /\ UNCHANGED <<store, geoWorld, geoCache, tm, am, chat>>

\* the answer to a call of find_matching_providers that has returned or raised
MatchResponse(o) ==
    IF o.kind = "return" THEN SuccessResponse(o.value)
    ELSE IF o.class = "ProviderMatchError" THEN MatchErrorResponse(o)
    ELSE IF o.class = "psycopg2.Error" THEN DatabaseErrorResponse
    ELSE ServerErrorResponse(o)

\* the connection goes back to the pool only after a successful match
ApiRespond_release_on_success ==
    /\ api.phase = "matching"
    /\ pc = "done"
    /\ api' = IF outcome.kind = "return"
              THEN [api EXCEPT !.phase = "responded", !.conn = NoneVal,
                               !.released = api.released + 1,
                               !.checkedOut = api.checkedOut - 1,
                               !.response = MatchResponse(outcome)]
              ELSE [api EXCEPT !.phase = "responded",
                               !.response = MatchResponse(outcome)]
    /\ pc' = "idle"
    /\ UNCHANGED <<req, store, geoWorld, geoCache, org_coords, dest_coords, providers,
                   matching_providers, outcome, geocoderCalls, queries, tm, am, chat>>

\* provider_match, lines 166-210: find_matching_providers has returned or
\* raised; the answer is made and "finally" gives the connection back
ApiRespond ==
    /\ api.phase = "matching"
    /\ pc = "done"
    /\ api' = [api EXCEPT !.phase = "responded",
                          !.conn = NoneVal,
                          !.released = api.released + 1,
                          !.checkedOut = api.checkedOut - 1,
                          !.response = MatchResponse(outcome)]
    /\ pc' = "idle"
    /\ UNCHANGED <<req, store, geoWorld, geoCache, org_coords, dest_coords, providers,
                   matching_providers, outcome, geocoderCalls, queries, tm, am, chat>>

InitApi ==
    /\ pc = "idle"
    /\ req = NoneVal
    /\ store \in ApiStoreInputs
    /\ geoWorld = World0
    /\ geoCache = [a \in Addresses |-> Miss]
    /\ org_coords = NoneVal
    /\ dest_coords = NoneVal
    /\ providers = <<>>
    /\ matching_providers = <<>>
    /\ outcome = NoOutcome
    /\ geocoderCalls = <<>>
    /\ queries = 0
    /\ tm = TmOff
    /\ am = AmOff
    /\ api = ApiListening
    /\ chat = ChatOff

NextApi ==
    \/ \E body \in BodyInputs : ApiReceive(body)
    \/ ValidateTimes
    \/ GeocodeAddresses
    \/ FetchProviders
    \/ FetchFails
    \/ FilterProviders
    \/ Aggregate
    \/ ApiRespond

SpecApi == InitApi /\ [][NextApi]_vars

-----------------------------------------------------------------------------
(* The chat service: src/src/routes/chat_routes.py *)

\* requests the model lets the service receive in one run
MaxChatRequests == 2

\* handler coroutines that may be in flight at once
ChatHandlers == {1, 2}

ConversationIds == {Str("c1"), Str("c2")}

SystemMessage(content) == [t |-> "message", type |-> "system", content |-> content]

AIMessage(content) == [t |-> "message", type |-> "ai", content |-> content]

HumanMessage(content) == [t |-> "message", type |-> "human", content |-> content]

\* the message a tool node adds to the state of the graph
ToolMessage(content) == [t |-> "message", type |-> "tool", content |-> content]

\* the content of a message: its text, as the pieces it is made of, and the
\* number of the request it belongs to (0: none)
Content(text, n) == [text |-> text, no |-> n]

\* lines 255-258: the history a new conversation starts with
InitialHistory ==
    <<SystemMessage(Content(<<"ASSISTANCE_PROMPT">>, 0)),
      AIMessage(Content(<<"Hi! I'm here to help you find transportation services. How can I assist you today?">>, 0))>>

\* the newMessage values a client may send with request n: a message of each
\* role the handler knows, of a role it does not know, without a role, a
\* string in place of the dict, or nothing
NewMessageInputs(n) ==
    {[t |-> "dict", role |-> r, content |-> Content(<<"text">>, n)] :
        r \in {Str("human"), Str("ai"), Str("system"), Str("bot")}}
    \cup {[t |-> "dict", role |-> NoneVal, content |-> Content(<<"text">>, n)],
          [t |-> "str", s |-> "hello"], NoneVal}

\* request.json of request n: None, or a dict with the two keys
ChatBodyInputs(n) ==
    {NoneVal}
    \cup {[t |-> "dict", conversationId |-> c, newMessage |-> m] :
            c \in ConversationIds \cup {NoneVal}, m \in NewMessageInputs(n)}

\* what the graph may add to the messages it was given for request n: one
\* answer, or a tool call, the tool's result and an answer
GraphOutputs(n) ==
    { <<AIMessage(Content(<<"answer">>, n))>>,
      <<AIMessage(Content(<<"tool call">>, n)), ToolMessage(Content(<<"tool result">>, n)),
        AIMessage(Content(<<"answer">>, n))>> }

\* lines 286-295: the dict sent to the client for a message
OutputOf(msg) ==
    IF msg.type = "ai" THEN [role |-> "ai", content |-> msg.content]
    ELSE IF msg.type = "human" THEN [role |-> "human", content |-> msg.content]
    ELSE [role |-> "system",
          content |-> Content(<<"str", msg.type>> \o msg.content.text, msg.content.no)]

\* seq[n:] of Python
SliceFrom(seq, n) == IF n >= Len(seq) THEN <<>> ELSE SubSeq(seq, n + 1, Len(seq))

HandlerIdle == [phase |-> "idle"]

ChatResponse(status, body) == [http |-> status, body |-> body]

\* the handler answers before it reaches the graph
AnsweredAtOnce(id, response) ==
    [phase |-> "done", no |-> 0, id |-> id, input |-> <<>>, generated |-> <<>>,
     response |-> response]

\* conversations with the key id bound to history
Stored(conversations, id, history) ==
    [c \in DOMAIN conversations \cup {id} |->
        IF c = id THEN history ELSE conversations[c]]

\* the conversation is set to its initial history on every request
Opened_always(conversations, id) == Stored(conversations, id, InitialHistory)

\* lines 253-258: the map after "if conversation_id not in conversations"
Opened(conversations, id) ==
    IF id \in DOMAIN conversations THEN conversations
    ELSE Stored(conversations, id, InitialHistory)

\* lines 266-276: the message appended for a role, or None for an unknown role
MessageOfRole(role, content) ==
    IF role = Str("human") THEN HumanMessage(content)
    ELSE IF role = Str("ai") THEN AIMessage(content)
    ELSE IF role = Str("system") THEN SystemMessage(content)
    ELSE NoneVal

\* chat_endpoint, lines 235-279: handler h takes a request and runs up to the
\* awaited call of the graph, or answers at once. The graph works on the
\* messages the list holds when it is invoked.
ChatReceive(h, body) ==
    /\ chat.h[h].phase = "idle"
    /\ chat.n < MaxChatRequests
    /\ IF IsNone(body)
       THEN chat' = [chat EXCEPT !.n = chat.n + 1,
                                 !.h[h] = AnsweredAtOnce(NoneVal,
                                     ChatResponse(500, "Internal server error"))]
       ELSE IF IsNone(body.conversationId)
       THEN chat' = [chat EXCEPT !.n = chat.n + 1,
                                 !.h[h] = AnsweredAtOnce(NoneVal,
                                     ChatResponse(400, "No conversationId provided"))]
       ELSE IF IsNone(body.newMessage)
       THEN chat' = [chat EXCEPT !.n = chat.n + 1,
                                 !.h[h] = AnsweredAtOnce(body.conversationId,
                                     ChatResponse(400, "No newMessage provided"))]
       ELSE LET id == body.conversationId
                opened == Opened(chat.conversations, id)
            IN  IF body.newMessage.t # "dict"
                THEN chat' = [chat EXCEPT !.n = chat.n + 1,
                                          !.conversations = opened,
                                          !.h[h] = AnsweredAtOnce(id,
                                              ChatResponse(500, "Internal server error"))]
                ELSE LET msg == MessageOfRole(body.newMessage.role,
                                              body.newMessage.content)
                     IN  IF IsNone(msg)
                         THEN chat' = [chat EXCEPT
                                         !.n = chat.n + 1,
                                         !.conversations = opened,
                                         !.h[h] = AnsweredAtOnce(id,
                                             ChatResponse(400, "Invalid Role"))]
                         ELSE chat' = [chat EXCEPT
                                         !.n = chat.n + 1,
                                         !.conversations =
                                             Stored(opened, id, Append(opened[id], msg)),
                                         !.h[h] = [phase |-> "suspended",
                                                   no |-> chat.n + 1, id |-> id,
                                                   input |-> Append(opened[id], msg),
                                                   generated |-> <<>>,
                                                   response |-> NoneVal]]
    /\ UNCHANGED <<orchVars, tm, am, api>>

\* chat_endpoint, lines 279-298: the graph returns the messages it was given
\* followed by those it generated; the handler slices the result at the
\* length the stored list has now, appends the slice and sends it
ChatGraphReturns(h) ==
    /\ chat.h[h].phase = "suspended"
    /\ \E generated \in GraphOutputs(chat.h[h].no) :
          LET id == chat.h[h].id
              current_conversation == chat.conversations[id]
              response_state == chat.h[h].input \o generated
              new_messages == SliceFrom(response_state, Len(current_conversation))
              output == [i \in 1..Len(new_messages) |-> OutputOf(new_messages[i])]
          IN  chat' = [chat EXCEPT
                         !.conversations = Stored(chat.conversations, id,
                                                  current_conversation \o new_messages),
                         !.h[h] = [phase |-> "done", no |-> chat.h[h].no, id |-> id,
                                   input |-> chat.h[h].input,
                                   generated |-> generated,
                                   response |-> ChatResponse(200, output)]]
    /\ UNCHANGED <<orchVars, tm, am, api>>

\* chat_endpoint, lines 300-304: graph.ainvoke raises
ChatGraphFails(h) ==
    /\ chat.h[h].phase = "suspended"
    /\ chat' = [chat EXCEPT !.h[h] = [phase |-> "done", no |-> chat.h[h].no,
                                      id |-> chat.h[h].id,
                                      input |-> chat.h[h].input, generated |-> <<>>,
                                      response |-> ChatResponse(500, "Internal server error")]]
    /\ UNCHANGED <<orchVars, tm, am, api>>

\* the response has been sent; the coroutine is gone
ChatDone(h) ==
    /\ chat.h[h].phase = "done"
    /\ chat' = [chat EXCEPT !.h[h] = HandlerIdle]
    /\ UNCHANGED <<orchVars, tm, am, api>>

InitChat ==
    /\ pc = "idle"
    /\ req = NoneVal
    /\ store = {}
    /\ geoWorld = World0
    /\ geoCache = [a \in Addresses |-> Miss]
    /\ org_coords = NoneVal
    /\ dest_coords = NoneVal
    /\ providers = <<>>
    /\ matching_providers = <<>>
    /\ outcome = NoOutcome
    /\ geocoderCalls = <<>>
    /\ queries = 0
    /\ tm = TmOff
    /\ am = AmOff
    /\ api = ApiOff
    /\ chat = [phase |-> "on", conversations |-> [c \in {} |-> <<>>],
               h |-> [x \in ChatHandlers |-> HandlerIdle], n |-> 0]

NextChat ==
    \/ \E h \in ChatHandlers : \E body \in ChatBodyInputs(chat.n + 1) : ChatReceive(h, body)
    \/ \E h \in ChatHandlers : ChatGraphReturns(h)
    \/ \E h \in ChatHandlers : ChatGraphFails(h)
    \/ \E h \in ChatHandlers : ChatDone(h)

SpecChat == InitChat /\ [][NextChat]_vars

-----------------------------------------------------------------------------
(* Vocabulary of the properties *)

Range(q) == {q[i] : i \in 1..Len(q)}

\* the instant a timestamp names, in minutes since Monday 00:00 UTC
Instant(ts) == ts.day * 1440 + ts.min - ts.off

\* weekday (Monday = 0) and minute of the day of an instant in Pacific time
LocalWeekday(ts) == ((Instant(ts) - 420 + 10080) \div 1440) % 7

LocalMinute(ts) == (Instant(ts) - 420 + 10080) % 1440

\* "HHMM" in minutes
HHMM(s) == (DigitVal(s[1]) * 10 + DigitVal(s[2])) * 60 + DigitVal(s[3]) * 10 + DigitVal(s[4])

WellFormedEntry(e) ==
    /\ Len(e.day) = 7
    /\ Len(e.start) = 4 /\ \A i \in 1..4 : IsDigit(e.start[i])
    /\ Len(e.end) = 4 /\ \A i \in 1..4 : IsDigit(e.end[i])

CrossesMidnight(e) == HHMM(e.end) >= 1440

\* the time window of section 4.1 of the specification
InWindow(e, m) ==
    IF CrossesMidnight(e)
    THEN m >= HHMM(e.start) \/ m <= HHMM(e.end) - 1440
    ELSE HHMM(e.start) <= m /\ m <= HHMM(e.end)

\* entry e covers the instant ts
Covers(e, ts) ==
    /\ WellFormedEntry(e)
    /\ e.day[LocalWeekday(ts) + 1] = "1"
    /\ InWindow(e, LocalMinute(ts))

Finished == pc = "done"

\* the call got its rows from the store
StoreAnswered ==
    /\ queries = 1
    /\ ~(outcome.kind = "raise" /\ outcome.error_code = "MATCH_PROCESS_ERROR")

InResult(row) == ResultEntry(row) \in Range(outcome.value)

-----------------------------------------------------------------------------
(* Properties *)

\* C1: after the filter loop a fetched provider is in the list if and only if
\* its schedule matches the request times and its zone contains both geocoded
\* points.
C1_RetainedIffBothMatch ==
    pc = "aggregate" =>
        \A i \in 1..Len(providers) :
            (ResultEntry(providers[i]) \in Range(matching_providers))
            <=> /\ check_time_match(providers[i].service_hours,
                                    req.departureTime, req.returnTime)
                /\ check_area_match(providers[i].service_zone, org_coords, dest_coords)

\* C2: scenario A. The request of 2024-03-20 09:30-07:00 to 14:45-07:00 with
\* both addresses geocoded, against a store that holds the provider with the
\* schedule {1111100, 0444, 2414} and a zone containing both points, returns a
\* list that contains that provider.
C2_ScenarioA ==
    LET rowA == Row(Id(3), "County Van", "paratransit", Hours(<<EntryA>>), ZoneHome)
    IN  ( /\ Finished /\ StoreAnswered
          /\ req.departureTime = DepA /\ req.returnTime = RetA
          /\ rowA \in store
          /\ check_area_match(rowA.service_zone, org_coords, dest_coords) )
        => (outcome.kind = "return" /\ InResult(rowA))

\* C3: check_time_match is true exactly when one entry of the schedule covers
\* the departure and the same entry covers the return.
C3_SameEntryCoversBoth ==
    tm.phase = "match" =>
        ( tm.result.v
          <=> /\ ~IsNone(tm.service_hours)
              /\ \E i \in 1..Len(tm.service_hours.hours) :
                    /\ Covers(tm.service_hours.hours[i], tm.dep_time)
                    /\ Covers(tm.service_hours.hours[i], tm.ret_time) )

\* C4: for an entry that ends at or after "2400", check_time_in_range covers
\* the minute m exactly when m >= start or m <= end - 1440.
C4_MidnightWindow ==
    ( /\ tm.phase = "range"
      /\ WellFormedEntry(Head(tm.service_hours.hours))
      /\ CrossesMidnight(Head(tm.service_hours.hours)) )
    => ( tm.result.v
         <=> \/ LocalMinute(tm.dep_time) >= HHMM(Head(tm.service_hours.hours).start)
             \/ LocalMinute(tm.dep_time) <= HHMM(Head(tm.service_hours.hours).end) - 1440 )

\* C5: an entry that ends before "2400" covers an instant exactly when the day
\* bit of the instant's weekday is '1' and start <= minute <= end, both bounds
\* included; check_time_in_range decides the window, and check_time_match on
\* the schedule made of that entry alone is true exactly when the entry covers
\* both instants, so never when a day bit is '0'.
C5_DayWindow ==
    /\ ( /\ tm.phase = "range"
         /\ WellFormedEntry(Head(tm.service_hours.hours))
         /\ ~CrossesMidnight(Head(tm.service_hours.hours)) )
       => ( tm.result.v
            <=> /\ HHMM(Head(tm.service_hours.hours).start) <= LocalMinute(tm.dep_time)
                /\ LocalMinute(tm.dep_time) <= HHMM(Head(tm.service_hours.hours).end) )
    /\ ( /\ tm.phase = "match"
         /\ ~IsNone(tm.service_hours)
         /\ Len(tm.service_hours.hours) = 1
         /\ WellFormedEntry(Head(tm.service_hours.hours))
         /\ ~CrossesMidnight(Head(tm.service_hours.hours)) )
       => LET e == Head(tm.service_hours.hours)
              CoversDay(ts) ==
                  /\ e.day[LocalWeekday(ts) + 1] = "1"
                  /\ HHMM(e.start) <= LocalMinute(ts)
                  /\ LocalMinute(ts) <= HHMM(e.end)
          IN  tm.result.v <=> (CoversDay(tm.dep_time) /\ CoversDay(tm.ret_time))

\* C5 witness: the entry Wednesday 09:30-14:45 alone, departure at 09:30 and
\* return at 14:45 on a Wednesday, matched.
C5_Witness ==
    /\ tm.phase = "match"
    /\ tm.service_hours = Hours(<<EntryDay>>)
    /\ tm.dep_time = DepA
    /\ tm.ret_time = RetA
    /\ tm.result.v

ErrorCodes ==
    {"INVALID_TIME_RANGE", "GEOCODING_ERROR", "NO_PROVIDERS", "NO_MATCHES",
     "MATCH_PROCESS_ERROR"}

\* C6: every call ends, and ends either with a non-empty list or with one
\* ProviderMatchError; it never returns an empty list.
C6_Total ==
    /\ Finished =>
          \/ outcome.kind = "return" /\ outcome.value # <<>>
          \/ outcome.kind = "raise" /\ outcome.error_code \in ErrorCodes
    /\ pc \in {"validate", "geocode", "fetch", "filter", "aggregate"} =>
          /\ outcome.kind = "none"
          /\ ENABLED (ValidateTimes \/ GeocodeAddresses \/ FetchProviders
                        \/ FilterProviders \/ Aggregate)

\* C6 witness: the filter kept nobody and the call ended with an error
C6_Witness ==
    /\ Finished
    /\ providers # <<>>
    /\ matching_providers = <<>>
    /\ outcome.kind = "raise"

\* C7: a returned list is in ascending order of provider id.
C7_AscendingIds ==
    (Finished /\ outcome.kind = "return") =>
        \A i, j \in 1..Len(outcome.value) :
            i < j => outcome.value[i].ID.v < outcome.value[j].ID.v

\* C8: a request whose return instant is not after its departure instant
\* fails with INVALID_TIME_RANGE, and the detail holds both timestamps.
C8_InvalidTimeRange ==
    ( /\ Finished
      /\ ~IsNone(req.departureTime) /\ ~IsNone(req.returnTime)
      /\ Instant(req.returnTime) <= Instant(req.departureTime) )
    => /\ outcome.kind = "raise"
       /\ outcome.error_code = "INVALID_TIME_RANGE"
       /\ outcome.details = [t |-> "dict", departure |-> req.departureTime,
                             return |-> req.returnTime]

\* C8 witness: return 21:45Z names the instant of departure 14:45-07:00
C8_Witness ==
    /\ Finished
    /\ req.departureTime = RetA
    /\ req.returnTime = RetAUtc
    /\ outcome.error_code = "INVALID_TIME_RANGE"

\* C9: when geocode_address gave no coordinates for the origin or for the
\* destination, the call fails with GEOCODING_ERROR and the detail holds both
\* addresses of the request; no later step runs without both coordinates.
C9_GeocodingError ==
    /\ ( /\ Finished
         /\ geocoderCalls # <<>>
         /\ (IsNone(org_coords) \/ IsNone(dest_coords)) )
       => /\ outcome.kind = "raise"
          /\ outcome.error_code = "GEOCODING_ERROR"
          /\ outcome.details = [t |-> "dict", origin |-> req.originAddress,
                                destination |-> req.destinationAddress]
    /\ pc \in {"fetch", "filter", "aggregate"} =>
          (~IsNone(org_coords) /\ ~IsNone(dest_coords))

\* C9 witness: only the destination could not be geocoded
C9_Witness ==
    /\ Finished
    /\ req.originAddress = "Home"
    /\ req.destinationAddress = "Nowhere"
    /\ ~IsNone(org_coords)
    /\ IsNone(dest_coords)
    /\ outcome.error_code = "GEOCODING_ERROR"

\* C10: when the store holds no record with a non-null id, a non-null
\* schedule and a non-null zone, the call fails with NO_PROVIDERS.
C10_NoProviders ==
    ( /\ Finished /\ StoreAnswered
      /\ {r \in store : /\ ~IsNone(r.provider_id)
                        /\ ~IsNone(r.service_hours)
                        /\ ~IsNone(r.service_zone)} = {} )
    => (outcome.kind = "raise" /\ outcome.error_code = "NO_PROVIDERS")

\* C11: when rows were fetched and every one of them fails the time test or
\* the geofence test, the call fails with NO_MATCHES and the detail holds the
\* request's five criteria unchanged.
C11_NoMatches ==
    ( /\ Finished /\ StoreAnswered
      /\ providers # <<>>
      /\ \A i \in 1..Len(providers) :
            \/ ~check_time_match(providers[i].service_hours,
                                 req.departureTime, req.returnTime)
            \/ ~check_area_match(providers[i].service_zone, org_coords, dest_coords) )
    => outcome = ProviderMatchError("NO_MATCHES",
                     [t |-> "dict",
                      criteria |-> Criteria(req.eligibility, req.equipment,
                                            req.healthConditions,
                                            req.needsCompanion, req.allowsSharing)])

\* C12: scenario F. With a provider whose zone geometry cannot be parsed and
\* a provider that matches the request in the store, the list returned holds
\* the matching provider and not the one with the malformed zone.
C12_ScenarioF ==
    \A bad, good \in store :
        ( /\ Finished /\ StoreAnswered
          /\ ~IsNone(bad.provider_id) /\ ~IsNone(good.provider_id)
          /\ AreaBody(bad.service_zone, org_coords, dest_coords) = "raise"
          /\ check_time_match(good.service_hours, req.departureTime, req.returnTime)
          /\ check_area_match(good.service_zone, org_coords, dest_coords) )
        => (outcome.kind = "return" /\ InResult(good) /\ ~InResult(bad))

\* evaluating the record raises in one of the two matchers
BadRecord(p) ==
    \/ ScheduleRaises(p.service_hours, req.departureTime, req.returnTime)
    \/ AreaBody(p.service_zone, org_coords, dest_coords) = "raise"

EntryOfSoundRecord(e) ==
    \E i \in 1..Len(providers) :
        /\ ~BadRecord(providers[i])
        /\ e.ID = providers[i].provider_id

SoundRecord(p) == ~BadRecord(p)

\* C13: a record whose schedule or zone data makes a matcher raise never ends
\* the call in MATCH_PROCESS_ERROR, and the entries of the other records are
\* those the loop produces when the bad records are taken out of the rows.
C13_BadRecordContained ==
    /\ (pc \in {"aggregate", "done"} /\ providers # <<>>)
          => ~(outcome.kind = "raise" /\ outcome.error_code = "MATCH_PROCESS_ERROR")
    /\ (pc = "done" /\ providers # <<>>) => outcome.kind # "none"
    /\ (pc = "aggregate") =>
          SelectSeq(matching_providers, EntryOfSoundRecord)
            = FilterLoop(SelectSeq(providers, SoundRecord), req, org_coords, dest_coords)

\* C13 witness: a record with a malformed schedule was fetched with a record
\* that is retained
C13_Witness ==
    /\ pc = "aggregate"
    /\ \E i \in 1..Len(providers) :
          ScheduleRaises(providers[i].service_hours, req.departureTime, req.returnTime)
    /\ \E i \in 1..Len(providers) :
          /\ ~BadRecord(providers[i])
          /\ ResultEntry(providers[i]) \in Range(matching_providers)

\* C15: a call that fails ends with one ProviderMatchError whose code is one
\* of the five codes. The error raised for an invalid time range, a failed
\* geocoding, an empty store or an empty result keeps its own code and has no
\* wrapped cause; any other exception ends as MATCH_PROCESS_ERROR and its
\* detail names the exception it wraps.
C15_OneErrorKind ==
    (Finished /\ outcome.kind = "raise") =>
        /\ outcome.class = "ProviderMatchError"
        /\ outcome.error_code \in ErrorCodes
        /\ (outcome.error_code = "MATCH_PROCESS_ERROR")
              <=> ("original_error" \in DOMAIN outcome.details)
        /\ outcome.error_code = "MATCH_PROCESS_ERROR" =>
              IF IsNone(req.departureTime) \/ IsNone(req.returnTime)
              THEN outcome.details.original_error = "AttributeError"
              ELSE /\ outcome.details.original_error = "psycopg2.Error"
                   /\ queries = 1 /\ providers = <<>>
        /\ ( /\ ~IsNone(req.departureTime) /\ ~IsNone(req.returnTime)
             /\ Instant(req.returnTime) <= Instant(req.departureTime) )
              => outcome.error_code = "INVALID_TIME_RANGE"
        /\ (geocoderCalls # <<>> /\ (IsNone(org_coords) \/ IsNone(dest_coords)))
              => outcome.error_code = "GEOCODING_ERROR"
        /\ (queries = 1 /\ providers = <<>>)
              => outcome.error_code \in {"NO_PROVIDERS", "MATCH_PROCESS_ERROR"}
        /\ providers # <<>> => outcome.error_code = "NO_MATCHES"

\* C15 witness: the query raised and the call ended with the wrapped cause
C15_Witness ==
    /\ Finished
    /\ queries = 1
    /\ outcome.kind = "raise"
    /\ outcome.error_code = "MATCH_PROCESS_ERROR"
    /\ outcome.details.original_error = "psycopg2.Error"

\* C20: every entry of a returned list has exactly the fields ID, Provider
\* and Type, and they hold the id, the name and the type of one stored record
\* that the loop retained; no record is described by two entries.
C20_EntriesDescribeProviders ==
    (Finished /\ outcome.kind = "return") =>
        /\ \A i \in 1..Len(outcome.value) :
              /\ DOMAIN outcome.value[i] = {"ID", "Provider", "Type"}
              /\ \E row \in store :
                    /\ ~IsNone(row.provider_id)
                    /\ outcome.value[i].ID = row.provider_id
                    /\ outcome.value[i].Provider = row.provider_name
                    /\ outcome.value[i].Type = row.provider_type
                    /\ ProviderRetained(row, req, org_coords, dest_coords)
        /\ \A i, j \in 1..Len(outcome.value) :
              outcome.value[i].ID = outcome.value[j].ID => i = j
        /\ Len(outcome.value) <= Cardinality(store)

\* C20 witness: a list of two entries was returned
C20_Witness ==
    /\ Finished
    /\ outcome.kind = "return"
    /\ Len(outcome.value) = 2
    /\ outcome.value[1].Provider # outcome.value[2].Provider
    /\ outcome.value[1].Type # outcome.value[2].Type

\* the point is in the interior of the ring or on one of its edges
InsideOrOnBoundary(ring, p) ==
    \/ OnBoundary(ring, p)
    \/ Cardinality({i \in 1..Len(ring) :
           RayCrosses(RingEdge(ring, i)[1], RingEdge(ring, i)[2], p)}) % 2 = 1

WellFormedZone(z) ==
    /\ ~IsNone(z)
    /\ z.features # <<>>
    /\ Len(z.features[1]) >= 3

\* C18: for a zone with a polygon and two coordinate pairs, check_area_match
\* is true exactly when the origin and the destination are both inside the
\* polygon or on its boundary.
C18_BoundaryInclusive ==
    ( /\ am.phase = "done"
      /\ WellFormedZone(am.service_zone)
      /\ ~IsNone(am.org_coords) /\ ~IsNone(am.dest_coords) )
    => ( (am.result = PyBool(TRUE))
         <=> /\ InsideOrOnBoundary(am.service_zone.features[1], Point(am.org_coords))
             /\ InsideOrOnBoundary(am.service_zone.features[1], Point(am.dest_coords)) )

\* C19: check_area_match hands a boolean to its caller on every input, and
\* the boolean is false when the zone is absent, holds no polygon, holds a
\* ring that makes no polygon, or when one of the coordinate pairs is absent.
C19_FailClosed ==
    am.phase = "done" =>
        /\ am.result.t = "bool"
        /\ ( \/ ~WellFormedZone(am.service_zone)
             \/ IsNone(am.org_coords)
             \/ IsNone(am.dest_coords) )
           => am.result = PyBool(FALSE)

\* C19 witness: the ring of the zone has two points, both coordinate pairs
\* are there, and the answer is False
C19_Witness ==
    /\ am.phase = "done"
    /\ am.service_zone = ZoneMalformed
    /\ am.org_coords = Coords(2, 2)
    /\ am.dest_coords = Coords(2, 2)
    /\ am.result = PyBool(FALSE)

Responded == api.phase = "responded"

\* the text holds the name: the name is one of the pieces the text is made of
Mentions(text, name) == \E i \in 1..Len(text) : text[i] = name

\* the body is a dict that lacks exactly the field f of the nine
OmitsOnly(body, f) ==
    /\ ~IsNone(body)
    /\ Range(RequiredFields) \ DOMAIN body.fields = {f}

\* C16: a request that omits one of the nine required fields is answered
\* with HTTP 400 and status VALIDATION_ERROR, and the error text holds the
\* name of the omitted field.
C16_MissingFieldNamed ==
    \A f \in Range(RequiredFields) :
        (Responded /\ OmitsOnly(api.body, f))
        => /\ api.response.http = 400
           /\ api.response.status = "VALIDATION_ERROR"
           /\ Mentions(api.response.error, f)

\* the field is absent or is not a string that parses as a timestamp
NotATimestamp(fields, f) ==
    \/ f \notin DOMAIN fields
    \/ fields[f].t # "str"
    \/ "day" \notin DOMAIN fields[f]

\* the field is absent, is not a string, or is empty after trimming
NotAnAddress(fields, f) ==
    \/ f \notin DOMAIN fields
    \/ fields[f].t # "str"
    \/ fields[f].s \in {"", " "}

IllTyped(body) ==
    /\ ~IsNone(body)
    /\ \/ NotATimestamp(body.fields, "departureTime")
       \/ NotATimestamp(body.fields, "returnTime")
       \/ NotAnAddress(body.fields, "originAddress")
       \/ NotAnAddress(body.fields, "destinationAddress")

\* C17: a request whose departureTime or returnTime is absent or is not a
\* parsable timestamp string, or whose origin or destination address is
\* absent, not a string or blank, is answered with VALIDATION_ERROR and no
\* geocoder call is made for it.
C17_IllTypedRejected ==
    (Responded /\ IllTyped(api.body))
    => /\ api.response.status = "VALIDATION_ERROR"
       /\ geocoderCalls = <<>>

\* C14: a request answered with VALIDATION_ERROR or INVALID_TIME_RANGE made
\* no geocoder call, took no connection from the pool and ran no query.
C14_FailsBeforeIO ==
    ( /\ Responded
      /\ \/ api.response.status = "VALIDATION_ERROR"
         \/ /\ api.response.status = "MATCH_ERROR"
            /\ api.response.error_code = "INVALID_TIME_RANGE" )
    => /\ geocoderCalls = <<>>
       /\ queries = 0
       /\ api.taken = 0

\* the request r with its five advisory criteria replaced by those of c
WithCriteria(r, c) ==
    [r EXCEPT !.eligibility = c.eligibility, !.equipment = c.equipment,
              !.healthConditions = c.healthConditions,
              !.needsCompanion = c.needsCompanion, !.allowsSharing = c.allowsSharing]

\* C21: the list the filter loop builds, and with it the kind of outcome
\* (a list or NO_MATCHES), is the one the loop builds for the same rows, times
\* and coordinates under any other values of the five advisory criteria.
C21_CriteriaAdvisory ==
    \A c \in CriteriaInputs :
        /\ pc = "aggregate" =>
              matching_providers
                = FilterLoop(providers, WithCriteria(req, c), org_coords, dest_coords)
        /\ (Finished /\ providers # <<>>) =>
              LET other == FilterLoop(providers, WithCriteria(req, c),
                                      org_coords, dest_coords)
              IN  IF other = <<>>
                  THEN outcome.kind = "raise" /\ outcome.error_code = "NO_MATCHES"
                  ELSE outcome.kind = "return" /\ outcome.value = other

\* C21 witness: a rider who needs a companion was given a volunteer service
C21_Witness ==
    /\ Finished
    /\ req.needsCompanion
    /\ outcome.kind = "return"
    /\ \E i \in 1..Len(outcome.value) : outcome.value[i].Type = "volunteer"

\* the schedule made of the entry e alone matches both times
EntryAloneMatches(e, dep, ret) == check_time_match(Hours(<<e>>), dep, ret)

\* C22: when a schedule holds a malformed entry and, before or after it, an
\* entry that covers the departure and the return, check_time_match is true.
C22_MalformedEntrySkipped ==
    ( /\ tm.phase = "match"
      /\ ~IsNone(tm.service_hours)
      /\ \E i \in 1..Len(tm.service_hours.hours) :
            ~WellFormedEntry(tm.service_hours.hours[i])
      /\ \E j \in 1..Len(tm.service_hours.hours) :
            /\ Covers(tm.service_hours.hours[j], tm.dep_time)
            /\ Covers(tm.service_hours.hours[j], tm.ret_time)
            /\ EntryAloneMatches(tm.service_hours.hours[j], tm.dep_time, tm.ret_time) )
    => tm.result = PyBool(TRUE)

\* the steps of one call in the order of the code, and the end of the call
StepEdges ==
    { <<"idle", "validate">>, <<"validate", "geocode">>, <<"geocode", "fetch">>,
      <<"fetch", "filter">>, <<"filter", "aggregate">>, <<"aggregate", "done">>,
      <<"validate", "done">>, <<"geocode", "done">>, <<"fetch", "done">>,
      <<"done", "idle">> }

HasFailedWith(code) == outcome.kind = "raise" /\ outcome.error_code = code

\* what each position of the call has done and has not yet done
StepsDone ==
    /\ pc = "validate" => (geocoderCalls = <<>> /\ queries = 0 /\ providers = <<>>)
    /\ pc = "geocode" => (geocoderCalls = <<>> /\ queries = 0 /\ providers = <<>>)
    /\ pc = "fetch" => (Len(geocoderCalls) = 2 /\ queries = 0 /\ providers = <<>>)
    /\ pc = "filter" => (Len(geocoderCalls) = 2 /\ queries = 1 /\ matching_providers = <<>>)
    /\ pc = "aggregate" => (Len(geocoderCalls) = 2 /\ queries = 1)
    /\ outcome.kind = "raise" => pc = "done"
    /\ HasFailedWith("INVALID_TIME_RANGE") => (geocoderCalls = <<>> /\ queries = 0)
    /\ HasFailedWith("GEOCODING_ERROR") => (queries = 0 /\ providers = <<>>)
    /\ HasFailedWith("NO_PROVIDERS") => (providers = <<>> /\ matching_providers = <<>>)

\* C23: a call moves only along validate, geocode, fetch, filter, aggregate,
\* never back and never twice through a step; a step that fails ends the
\* call: no geocoding after INVALID_TIME_RANGE, no query after
\* GEOCODING_ERROR, no provider evaluated after NO_PROVIDERS.
C23_StepOrder ==
    /\ []StepsDone
    /\ [][ /\ pc' # pc => <<pc, pc'>> \in StepEdges
           /\ pc' = pc => UNCHANGED <<req, org_coords, dest_coords, providers,
                                      matching_providers, outcome, geocoderCalls,
                                      queries>> ]_vars

\* C23 witness: the call ended at the third step, after validating,
\* geocoding and querying once
C23_Witness ==
    /\ Finished
    /\ HasFailedWith("NO_PROVIDERS")
    /\ Len(geocoderCalls) = 2
    /\ queries = 1

\* C24: in one call geocode_address is called once for the origin and once
\* for the destination and the store is queried at most once, however many
\* rows the query returns.
C24_CallsIndependentOfCatalog ==
    /\ queries <= 1
    /\ geocoderCalls # <<>> =>
          geocoderCalls = <<req.originAddress, req.destinationAddress>>
    /\ (pc \in {"filter", "aggregate", "done"} /\ providers # <<>>)
          => (queries = 1 /\ Len(geocoderCalls) = 2)

\* C24 witness: a call that evaluated two rows or more has ended
C24_Witness ==
    /\ Finished
    /\ Len(providers) >= 2
    /\ queries = 1
    /\ Len(geocoderCalls) = 2

\* C25: the coordinates a call works with are the geocoder's answers at the
\* time of the call, whatever calls were made before it.
C25_NoStateAcrossCalls ==
    (pc \in {"fetch", "filter", "aggregate", "done"} /\ geocoderCalls # <<>>)
    => /\ org_coords = geocode(geoWorld, req.originAddress)
       /\ dest_coords = geocode(geoWorld, req.destinationAddress)

\* C26: between requests no connection is out of the pool; while a match
\* runs exactly one is; an answered request has released as many connections
\* as it took, at most one, and none when validation rejected it.
C26_NoConnectionLeak ==
    /\ api.phase \in {"listening", "responded"} => api.checkedOut = 0
    /\ api.phase = "matching" =>
          /\ api.checkedOut = 1
          /\ api.taken = 1 /\ api.released = 0
          /\ ~IsNone(api.conn)
    /\ Responded =>
          /\ api.released = api.taken
          /\ api.taken <= 1
          /\ IsNone(api.conn)
          /\ api.response.status = "VALIDATION_ERROR" => api.taken = 0

\* C26 witness: a request that took a connection was answered with a match
\* error and the connection is back in the pool
C26_Witness ==
    /\ Responded
    /\ api.response.status = "MATCH_ERROR"
    /\ api.taken = 1
    /\ api.released = 1
    /\ api.checkedOut = 0

\* the provider query of the answered request raised psycopg2.Error
QueryRaised ==
    /\ queries = 1
    /\ outcome.kind = "raise"
    /\ "original_error" \in DOMAIN outcome.details
    /\ outcome.details.original_error = "psycopg2.Error"

\* C27: a request whose provider query raised psycopg2.Error is answered
\* with HTTP 500 and status DATABASE_ERROR.
C27_DatabaseErrorReported ==
    (Responded /\ QueryRaised)
    => /\ api.response.http = 500
       /\ api.response.status = "DATABASE_ERROR"

\* handler h has answered its request with the status code
ChatAnswered(h, code) ==
    /\ chat.phase = "on"
    /\ chat.h[h].phase = "done"
    /\ chat.h[h].response.http = code

\* m is in the stored history of the conversation id
InHistory(id, m) ==
    /\ id \in DOMAIN chat.conversations
    /\ m \in Range(chat.conversations[id])

\* C28: a request answered with 200 returns exactly the messages the graph
\* generated for it, in their order, and each of them is in the stored
\* history of its conversation, also when another request for the same
\* conversation was handled while the graph was awaited.
C28_GeneratedReturnedAndStored ==
    \A h \in ChatHandlers :
        ChatAnswered(h, 200) =>
            /\ chat.h[h].response.body
                 = [i \in 1..Len(chat.h[h].generated) |-> OutputOf(chat.h[h].generated[i])]
            /\ \A i \in 1..Len(chat.h[h].generated) :
                  InHistory(chat.h[h].id, chat.h[h].generated[i])

\* C29: a step in which a handler answers a request with 400, or answers
\* the failure of the graph with 500, leaves the conversations map as the
\* request found it. For the failure of the graph
\* the request found the map as it was when the handler took the request:
\* without the new message, which is the last of the messages given to the
\* graph.
C29_ErrorLeavesMapUntouched ==
    [][ \A h \in ChatHandlers :
          /\ ( /\ chat.phase = "on"
               /\ chat.h[h].phase = "idle"
               /\ chat'.h[h].phase = "done"
               /\ chat'.h[h].response.http = 400 )
             => chat'.conversations = chat.conversations
          /\ ( /\ chat.phase = "on"
               /\ chat.h[h].phase = "suspended"
               /\ chat'.h[h].phase = "done"
               /\ chat'.h[h].response.http = 500 )
             => ~InHistory(chat.h[h].id, chat.h[h].input[Len(chat.h[h].input)]) ]_vars

\* the history q starts with the messages of p, in their order
IsPrefix(p, q) == Len(p) <= Len(q) /\ SubSeq(q, 1, Len(p)) = p

\* C30: every stored history starts with the system prompt and the welcome
\* message; a step of the service keeps every conversation and keeps what
\* each history holds as the beginning of the history after the step.
C30_HistoriesAppendOnly ==
    /\ [](chat.phase = "on" =>
            \A id \in DOMAIN chat.conversations :
                IsPrefix(InitialHistory, chat.conversations[id]))
    /\ [][ chat.phase = "on" =>
             \A id \in DOMAIN chat.conversations :
                 /\ id \in DOMAIN chat'.conversations
                 /\ IsPrefix(chat.conversations[id], chat'.conversations[id]) ]_vars

\* C30 witness: two conversations are stored, one of them with a request's
\* message and the graph's answer after the two initial messages
C30_Witness ==
    /\ chat.phase = "on"
    /\ DOMAIN chat.conversations = ConversationIds
    /\ \E id \in ConversationIds : Len(chat.conversations[id]) >= 4

====
